---- MODULE Spec2Model ----
(***************************************************************************)
(* The tensor notebook as a state machine: one step per statement (a       *)
(* statement together with the print calls that follow it), over a heap of *)
(* backing buffers and the notebook's variables, each a view (buffer,      *)
(* offset, shape, strides) or a copied Python value.  The homework         *)
(* notebook's exercise 3 is modelled as the summations its solution does.  *)
(*                                                                         *)
(* Floating-point values are fixed-point integers in units of 1/Scale.     *)
(* The values of a, b and c (cells 13 and 17) are not tracked: only their  *)
(* shape, strides, dtype and device are.                                   *)
(***************************************************************************)
EXTENDS Integers, Sequences, FiniteSets, TLC

\* Four decimals, the precision of the recorded outputs (1.4142).
Scale == 10000

\* The draws of np.random.randn are taken from 0.0, 1.0, .., MaxRand.0.
MaxRand == 1

\* The number of extra element writes made after cell 4 (SpecW only).
MaxWrites == 2

RandVals == {k * Scale : k \in 0..MaxRand}

\* The values the notebook writes: tens[0, 0] = 10 and arr_from_tens[0, 1] = 20.
Ten == 10 * Scale
Twenty == 20 * Scale

\* The value the extra element writes store.
WriteVals == {Twenty}

-----------------------------------------------------------------------------
\* Shapes, strides and addressing (row-major, 0-based indices).

RECURSIVE Numel(_)
Numel(shape) ==
    IF shape = <<>> THEN 1 ELSE Head(shape) * Numel(Tail(shape))

RECURSIVE ContiguousStrides(_)
ContiguousStrides(shape) ==
    IF shape = <<>> THEN <<>>
    ELSE <<Numel(Tail(shape))>> \o ContiguousStrides(Tail(shape))

RECURSIVE Unravel(_, _)
Unravel(k, shape) ==
    IF shape = <<>> THEN <<>>
    ELSE LET n == Numel(Tail(shape))
         IN  <<k \div n>> \o Unravel(k % n, Tail(shape))

RECURSIVE Dot(_, _)
Dot(idx, strides) ==
    IF idx = <<>> THEN 0
    ELSE Head(idx) * Head(strides) + Dot(Tail(idx), Tail(strides))

\* The indices of a shape, in row-major order.
Indices(shape) == [k \in 1..Numel(shape) |-> Unravel(k - 1, shape)]

\* The (1-based) place in its backing buffer of element idx of view v.
Address(v, idx) == v.off + Dot(idx, v.strides) + 1

Addresses(v) == {Address(v, Indices(v.shape)[k]) : k \in 1..Numel(v.shape)}

-----------------------------------------------------------------------------
\* Objects: a view on a backing buffer (tensor, ndarray) or a Python value
\* (py) that holds its own data.

Unbound ==
    [kind |-> "unbound", buf |-> 0, off |-> 0, shape |-> <<>>,
     strides |-> <<>>, data |-> <<>>, dtype |-> "none", device |-> "none"]

View(kind, buf, off, shape, strides, dtype, device) ==
    [kind |-> kind, buf |-> buf, off |-> off, shape |-> shape,
     strides |-> strides, data |-> <<>>, dtype |-> dtype, device |-> device]

PyValue(shape, data) ==
    [kind |-> "py", buf |-> 0, off |-> 0, shape |-> shape,
     strides |-> ContiguousStrides(shape), data |-> data,
     dtype |-> "python", device |-> "none"]

IsView(v) == v.kind \in {"tensor", "ndarray"} /\ v.buf # 0

\* Element idx of object v, read in heap h.
Get(h, v, idx) ==
    IF v.kind = "py" THEN v.data[Dot(idx, v.strides) + 1]
    ELSE h[v.buf][Address(v, idx)]

\* All elements of v in row-major order.
ReadAll(h, v) == [k \in 1..Numel(v.shape) |-> Get(h, v, Indices(v.shape)[k])]

\* x[idx] = val: the write goes to the backing buffer of the view.
SetItem(h, v, idx, val) ==
    [h EXCEPT ![v.buf] = [@ EXCEPT ![Address(v, idx)] = val]]

\* np.shares_memory(x, y): a Python number or list is first converted to a
\* fresh array, which shares memory with nothing.
SharesMemory(x, y) ==
    /\ IsView(x) /\ IsView(y)
    /\ x.buf = y.buf
    /\ Addresses(x) \cap Addresses(y) # {}

-----------------------------------------------------------------------------
\* Library calls.  Each takes the heap and returns the heap after the call
\* and the object returned.

\* np.random.randn(2, 3) with the drawn values vals.
NpRandn(h, shape, vals) ==
    [heap |-> Append(h, vals),
     ret  |-> View("ndarray", Len(h) + 1, 0, shape, ContiguousStrides(shape),
                   "float64", "cpu")]

\* Variant: torch.tensor returns a view on the buffer of its argument.
TorchTensor_view(h, src) ==
    [heap |-> h, ret |-> [src EXCEPT !.kind = "tensor"]]

\* torch.tensor(src): a copy of the argument in a new buffer.
TorchTensor(h, src) ==
    [heap |-> Append(h, ReadAll(h, src)),
     ret  |-> View("tensor", Len(h) + 1, 0, src.shape,
                   ContiguousStrides(src.shape), src.dtype, "cpu")]

\* Variant: numpy() copies the tensor into a new buffer.
Numpy_copy(h, t) ==
    [heap |-> Append(h, ReadAll(h, t)),
     ret  |-> View("ndarray", Len(h) + 1, 0, t.shape,
                   ContiguousStrides(t.shape), t.dtype, "cpu")]

\* t.numpy(): an ndarray view on the tensor's buffer.
Numpy(h, t) ==
    [heap |-> h, ret |-> [t EXCEPT !.kind = "ndarray"]]

\* Variant: t[i] copies the row into a new buffer.
GetItemRow_copy(h, t, i) ==
    [heap |-> Append(h, [j \in 1..Numel(Tail(t.shape)) |->
                            Get(h, t, <<i>> \o Indices(Tail(t.shape))[j])]),
     ret  |-> View(t.kind, Len(h) + 1, 0, Tail(t.shape),
                   ContiguousStrides(Tail(t.shape)), t.dtype, t.device)]

\* t[i]: a view on row i of the same buffer.
GetItemRow(h, t, i) ==
    [heap |-> h,
     ret  |-> [t EXCEPT !.off = t.off + i * Head(t.strides),
                        !.shape = Tail(t.shape),
                        !.strides = Tail(t.strides)]]

\* t[idx].item(): the element as a Python number.
Item(h, t, idx) ==
    [heap |-> h, ret |-> PyValue(<<>>, <<Get(h, t, idx)>>)]

\* Variant: tolist() hands out the tensor itself, a view on its buffer.
ToList_view(h, t) ==
    [heap |-> h, ret |-> t]

\* t.tolist(): the elements as (nested) Python lists.
ToList(h, t) ==
    [heap |-> h, ret |-> PyValue(t.shape, ReadAll(h, t))]

\* torch.ones(shape) and torch.ones_like(t): a new buffer holding ones.
TorchOnes(h, shape, one, dtype, device) ==
    [heap |-> Append(h, [k \in 1..Numel(shape) |-> one]),
     ret  |-> View("tensor", Len(h) + 1, 0, shape, ContiguousStrides(shape),
                   dtype, device)]

\* c * t: the product in a new buffer.
MulScalar(h, c, t) ==
    [heap |-> Append(h, [k \in 1..Numel(t.shape) |-> c * ReadAll(h, t)[k]]),
     ret  |-> View("tensor", Len(h) + 1, 0, t.shape,
                   ContiguousStrides(t.shape), t.dtype, t.device)]

RECURSIVE Bisect(_, _, _)
Bisect(n, lo, hi) ==
    IF lo = hi THEN lo
    ELSE LET mid == (lo + hi + 1) \div 2
         IN  IF mid * mid <= n THEN Bisect(n, mid, hi)
             ELSE Bisect(n, lo, mid - 1)

\* The square root of the fixed-point value v, rounded down to 1/Scale.
FixSqrt(v) == Bisect(v * Scale, 0, v + Scale)

\* Variant: torch.sqrt writes the square roots into the buffer of t.
TorchSqrt_inplace(h, t) ==
    [heap |-> [h EXCEPT ![t.buf] =
                  [p \in DOMAIN @ |->
                      IF p \in Addresses(t) THEN FixSqrt(@[p]) ELSE @[p]]],
     ret  |-> t]

\* torch.sqrt(t): the square roots in a new buffer; t is not written.
TorchSqrt(h, t) ==
    [heap |-> Append(h, [k \in 1..Numel(t.shape) |-> FixSqrt(ReadAll(h, t)[k])]),
     ret  |-> View("tensor", Len(h) + 1, 0, t.shape,
                   ContiguousStrides(t.shape), t.dtype, t.device)]

\* Variant: sqrt_ puts the square roots in a new buffer and leaves t alone.
Sqrt__outofplace(h, t) ==
    [heap |-> Append(h, [k \in 1..Numel(t.shape) |-> FixSqrt(ReadAll(h, t)[k])]),
     ret  |-> View("tensor", Len(h) + 1, 0, t.shape,
                   ContiguousStrides(t.shape), t.dtype, t.device)]

\* t.sqrt_(): every element of t is replaced by its square root, in t's
\* own buffer; the call returns t.
Sqrt_(h, t) ==
    [heap |-> [h EXCEPT ![t.buf] =
                  [p \in DOMAIN @ |->
                      IF p \in Addresses(t) THEN FixSqrt(@[p]) ELSE @[p]]],
     ret  |-> t]

\* Variant: the filled tensor is a new one and t keeps its values.
Fill__outofplace(h, t, val) ==
    [heap |-> Append(h, [p \in 1..Numel(t.shape) |-> val]),
     ret  |-> [t EXCEPT !.buf = Len(h) + 1, !.off = 0,
                        !.strides = ContiguousStrides(t.shape)]]

\* t.fill_(val): every element of t is set to val, in place.
Fill_(h, t, val) ==
    [heap |-> [h EXCEPT ![t.buf] =
                  [p \in DOMAIN @ |->
                      IF p \in Addresses(t) THEN val ELSE @[p]]],
     ret  |-> t]

\* The size list of view(..)/resize_(..) with a -1 entry inferred.
InferShape(n, shape) ==
    LET known == Numel([k \in 1..Len(shape) |->
                           IF shape[k] = -1 THEN 1 ELSE shape[k]])
    IN  [k \in 1..Len(shape) |-> IF shape[k] = -1 THEN n \div known ELSE shape[k]]

\* t.view(shape): a contiguous tensor seen under another shape, same buffer.
ViewAs(h, t, shape) ==
    LET s == InferShape(Numel(t.shape), shape)
    IN  [heap |-> h,
         ret  |-> [t EXCEPT !.shape = s, !.strides = ContiguousStrides(s)]]

Insert(seq, i, x) == SubSeq(seq, 1, i) \o <<x>> \o SubSeq(seq, i + 1, Len(seq))

Remove(seq, i) == SubSeq(seq, 1, i) \o SubSeq(seq, i + 2, Len(seq))

\* t.unsqueeze(dim): a view with a dimension of size 1 inserted at dim.
Unsqueeze(h, t, dim) ==
    [heap |-> h,
     ret  |-> [t EXCEPT
                 !.shape = Insert(@, dim, 1),
                 !.strides = Insert(@, dim,
                     IF dim < Len(t.shape)
                     THEN t.shape[dim + 1] * t.strides[dim + 1] ELSE 1)]]

\* t.squeeze(dim): a view with dimension dim removed if its size is 1.
Squeeze(h, t, dim) ==
    [heap |-> h,
     ret  |-> IF t.shape[dim + 1] = 1
              THEN [t EXCEPT !.shape = Remove(@, dim), !.strides = Remove(@, dim)]
              ELSE t]

\* t.resize_(shape): t itself takes the new shape; the buffer is kept when
\* it is large enough and grown (new elements uninitialized, here 0) if not.
Resize_(h, t, shape) ==
    LET need == t.off + Numel(shape)
        old  == h[t.buf]
    IN  [heap |-> IF need <= Len(old) THEN h
                  ELSE [h EXCEPT ![t.buf] =
                           [p \in 1..need |-> IF p <= Len(old) THEN old[p] ELSE 0]],
         ret  |-> [t EXCEPT !.shape = shape, !.strides = ContiguousStrides(shape)]]

\* torch.cat([x, y], dim=0) of two 1-dimensional tensors: a new buffer.
Cat(h, x, y) ==
    [heap |-> Append(h, ReadAll(h, x) \o ReadAll(h, y)),
     ret  |-> View("tensor", Len(h) + 1, 0, <<x.shape[1] + y.shape[1]>>, <<1>>,
                   x.dtype, x.device)]

Reverse(seq) == [k \in 1..Len(seq) |-> seq[Len(seq) + 1 - k]]

Swap(seq, i, j) ==
    [k \in 1..Len(seq) |->
        IF k = i + 1 THEN seq[j + 1] ELSE IF k = j + 1 THEN seq[i + 1] ELSE seq[k]]

\* Variant: only the first two dimensions change places.
T_firstTwo(t) == [t EXCEPT !.shape = Swap(@, 0, 1), !.strides = Swap(@, 0, 1)]

\* t.T: the dimensions reversed, on the same buffer.
T(t) == [t EXCEPT !.shape = Reverse(@), !.strides = Reverse(@)]

\* t.transpose(i, j): dimensions i and j swapped, on the same buffer.
Transpose(t, i, j) == [t EXCEPT !.shape = Swap(@, i, j), !.strides = Swap(@, i, j)]

\* t.t(): the transpose of a tensor of at most 2 dimensions.
Tt(t) == IF Len(t.shape) < 2 THEN t ELSE Transpose(t, 0, 1)

Dim(t) == Len(t.shape)

\* A tensor whose element values are not tracked (randn, randint): shape,
\* strides, dtype and device only.
Untracked(shape, dtype) ==
    View("tensor", 0, 0, shape, ContiguousStrides(shape), dtype, "cpu")

\* The device a device string names.
Device(name) == IF name = "cuda" THEN "cuda:0" ELSE name

\* Variant: the driver check never raises.
CudaInit_ok(avail) == "ok"

\* torch.cuda._lazy_init(): _check_driver() raises AssertionError when the
\* machine has no NVIDIA driver.
CudaInit(avail) == IF avail THEN "ok" ELSE "AssertionError"

\* Variant: to() copies also when the tensor is already on the device.
To_copy(h, t, device) ==
    [heap |-> Append(h, ReadAll(h, t)),
     ret  |-> View("tensor", Len(h) + 1, 0, t.shape,
                   ContiguousStrides(t.shape), t.dtype, Device(device))]

\* t.to(device): t itself when it is already on that device, and otherwise
\* a copy of t on the device.
To(h, t, device) ==
    IF t.device = Device(device)
    THEN [heap |-> h, ret |-> t]
    ELSE [heap |-> Append(h, ReadAll(h, t)),
          ret  |-> View("tensor", Len(h) + 1, 0, t.shape,
                        ContiguousStrides(t.shape), t.dtype, Device(device))]

\* The type name printed by t.type().
TypeName(t) ==
    (IF t.device = "cpu" THEN "torch." ELSE "torch.cuda.")
    \o (IF t.dtype = "float32" THEN "FloatTensor"
        ELSE IF t.dtype = "float64" THEN "DoubleTensor"
        ELSE IF t.dtype = "int16" THEN "ShortTensor"
        ELSE "LongTensor")


-----------------------------------------------------------------------------
\* The notebook.

\* The statements in the order they appear; pc is the next one to run.
Program ==
    << "c1",
       "c2_randn", "c2_tensor", "c2_setitem",
       "c3_numpy", "c3_setitem",
       "c4_slice", "c4_item", "c4_tolist", "c4_print",
       "c5", "c6", "c7", "c8",
       "c9_twotwo", "c9_sqrt", "c9_sqrt_",
       "c10",
       "c11_ones", "c11_cuda", "c11_to", "c11_type",
       "c13", "c14", "c15", "c16", "c17", "c18",
       "c19", "c27", "c28", "c39",
       "c40_squeeze", "c40_fill_",
       "c41", "c45",
       "c46_ones_like", "c46_cat",
       "c47", "c48",
       "done" >>

Pos(l) == CHOOSE i \in 1..Len(Program) : Program[i] = l

Following(l) == Program[Pos(l) + 1]

\* The code cells in order, with the execution count recorded for each.
ExecutionCount ==
    << 1, 2, 3, 4, 5, 6, 7, 8, 9, 10, 11, 13, 14, 15, 16, 17, 18, 19,
       27, 28, 39, 40, 41, 45, 46, 47, 48 >>

CodeCells == 1..Len(ExecutionCount)

Names ==
    {"arr_np", "tens", "arr_from_tens", "tens_first_row",
     "tens_element_as_py_obj", "tens_as_list",
     "twotwo", "twotwo_sqrt", "a", "b", "c", "d", "e"}

VARIABLES
    pc,               \* the next statement
    cuda,             \* torch.cuda.is_available() on this machine
    heap,             \* the backing buffers, in order of allocation
    env,              \* the notebook's array and tensor variables
    device,           \* the notebook's variable device
    out,              \* the outputs of each code cell
    execution_count,  \* the execution count stamped on each code cell
    writes,           \* the extra element writes made so far (SpecW)
    hw                \* homework exercise 3: the summations in progress

vars == <<pc, cuda, heap, env, device, out, execution_count, writes, hw>>

Line(text, data) == [text |-> text, data |-> data]

PyBool(b) == IF b THEN "True" ELSE "False"

\* The kernel stamps cell k when it starts to run it.
Start(k) == execution_count' = [execution_count EXCEPT ![k] = ExecutionCount[k]]

Emit(k, lines) == out' = [out EXCEPT ![k] = @ \o lines]

At(l) == pc = l

After(l) == Pos(pc) > Pos(l)

\* Homework exercise 3 before any summation has been started.
HwIdle ==
    [phase |-> "idle", x |-> 0, y |-> 0, j |-> 0, i |-> 0, px |-> 0, py |-> 0,
     prod |-> 0, joint |-> 0, tx |-> 0, ty |-> 0, total |-> 0]

\* A fresh kernel: nothing has run.
InitNotebook ==
    /\ pc = "c1"
    /\ cuda \in BOOLEAN
    /\ heap = <<>>
    /\ env = [n \in Names |-> Unbound]
    /\ device = "unbound"
    /\ out = [k \in CodeCells |-> <<>>]
    /\ execution_count = [k \in CodeCells |-> 0]
    /\ writes = 0

Init == InitNotebook /\ hw = HwIdle

\* import numpy as np; import torch; print(torch.__version__)
Cell1 ==
    /\ At("c1")
    /\ Start(1)
    /\ Emit(1, <<Line("1.4.0", <<>>)>>)
    /\ pc' = Following(pc)
    /\ UNCHANGED <<hw, cuda, device, heap, env, writes>>

\* arr_np = np.random.randn(2, 3); print
Cell2_randn ==
    /\ At("c2_randn")
    /\ \E vals \in [1..6 -> RandVals] :
          LET r == NpRandn(heap, <<2, 3>>, vals)
          IN  /\ heap' = r.heap
              /\ env' = [env EXCEPT !.arr_np = r.ret]
              /\ Emit(2, <<Line("Numpy array", ReadAll(r.heap, r.ret))>>)
    /\ Start(2)
    /\ pc' = Following(pc)
    /\ UNCHANGED <<hw, cuda, device, writes>>

\* tens = torch.tensor(arr_np); print
Cell2_tensor ==
    /\ At("c2_tensor")
    /\ LET r == TorchTensor(heap, env.arr_np)
       IN  /\ heap' = r.heap
           /\ env' = [env EXCEPT !.tens = r.ret]
           /\ Emit(2, <<Line("Tensor", ReadAll(r.heap, r.ret))>>)
    /\ pc' = Following(pc)
    /\ UNCHANGED <<hw, cuda, device, execution_count, writes>>

\* tens[0, 0] = 10; print(tens); print(arr_np)
Cell2_setitem ==
    /\ At("c2_setitem")
    /\ heap' = SetItem(heap, env.tens, <<0, 0>>, Ten)
    /\ Emit(2, << Line("We modify the element (0, 0) of the tensor object", <<>>),
                  Line("Tensor", ReadAll(heap', env.tens)),
                  Line("Numpy array", ReadAll(heap', env.arr_np)) >>)
    /\ pc' = Following(pc)
    /\ UNCHANGED <<hw, cuda, device, env, execution_count, writes>>

\* arr_from_tens = tens.numpy(); print
Cell3_numpy ==
    /\ At("c3_numpy")
    /\ LET r == Numpy(heap, env.tens)
       IN  /\ heap' = r.heap
           /\ env' = [env EXCEPT !.arr_from_tens = r.ret]
           /\ Emit(3, <<Line("Numpy array obtained with tens.numpy()",
                             ReadAll(r.heap, r.ret))>>)
    /\ Start(3)
    /\ pc' = Following(pc)
    /\ UNCHANGED <<hw, cuda, device, writes>>

\* arr_from_tens[0, 1] = 20; print(tens)
Cell3_setitem ==
    /\ At("c3_setitem")
    /\ heap' = SetItem(heap, env.arr_from_tens, <<0, 1>>, Twenty)
    /\ Emit(3, <<Line("Changing this numpy array will change our tensor too",
                      ReadAll(heap', env.tens))>>)
    /\ pc' = Following(pc)
    /\ UNCHANGED <<hw, cuda, device, env, execution_count, writes>>

\* tens_first_row = tens[0]
Cell4_slice ==
    /\ At("c4_slice")
    /\ LET r == GetItemRow(heap, env.tens, 0)
       IN  /\ heap' = r.heap
           /\ env' = [env EXCEPT !.tens_first_row = r.ret]
    /\ Start(4)
    /\ pc' = Following(pc)
    /\ UNCHANGED <<hw, cuda, device, out, writes>>

\* tens_element_as_py_obj = tens[0, 0].item()
Cell4_item ==
    /\ At("c4_item")
    /\ LET r == Item(heap, env.tens, <<0, 0>>)
       IN  /\ heap' = r.heap
           /\ env' = [env EXCEPT !.tens_element_as_py_obj = r.ret]
    /\ pc' = Following(pc)
    /\ UNCHANGED <<hw, cuda, device, out, execution_count, writes>>

\* tens_as_list = tens.tolist()
Cell4_tolist ==
    /\ At("c4_tolist")
    /\ LET r == ToList(heap, env.tens)
       IN  /\ heap' = r.heap
           /\ env' = [env EXCEPT !.tens_as_list = r.ret]
    /\ pc' = Following(pc)
    /\ UNCHANGED <<hw, cuda, device, out, execution_count, writes>>

\* the three print(np.shares_memory(tens, ..)) calls
Cell4_print ==
    /\ At("c4_print")
    /\ Emit(4, << Line(PyBool(SharesMemory(env.tens, env.tens_first_row)), <<>>),
                  Line(PyBool(SharesMemory(env.tens, env.tens_element_as_py_obj)), <<>>),
                  Line(PyBool(SharesMemory(env.tens, env.tens_as_list)), <<>>) >>)
    /\ pc' = Following(pc)
    /\ UNCHANGED <<hw, cuda, device, heap, env, execution_count, writes>>

\* An element write x[idx] = val through one of the three views, made after
\* cell 4 (the form of the statements tens[0, 0] = 10 and
\* arr_from_tens[0, 1] = 20).
ElementWrite ==
    /\ At("c5")
    /\ writes < MaxWrites
    /\ \E n \in {"tens", "arr_from_tens", "tens_first_row"} :
       \E k \in 1..Numel(env[n].shape) :
       \E val \in WriteVals :
          heap' = SetItem(heap, env[n], Indices(env[n].shape)[k], val)
    /\ writes' = writes + 1
    /\ UNCHANGED <<hw, pc, cuda, device, env, out, execution_count>>

Cells1to4 ==
    \/ Cell1
    \/ Cell2_randn \/ Cell2_tensor \/ Cell2_setitem
    \/ Cell3_numpy \/ Cell3_setitem
    \/ Cell4_slice \/ Cell4_item \/ Cell4_tolist \/ Cell4_print

\* print(tens.size()); print(tens.shape)
Cell5 ==
    /\ At("c5")
    /\ Start(5)
    /\ Emit(5, << Line("torch.Size", env.tens.shape),
                  Line("torch.Size", env.tens.shape) >>)
    /\ pc' = Following(pc)
    /\ UNCHANGED <<hw, cuda, device, heap, env, writes>>

\* The factory functions: each tensor is printed and dropped.  The values
\* drawn by randint, randn and randperm are not recorded, only the shapes.
Cell6 ==
    /\ At("c6")
    /\ Start(6)
    /\ Emit(6, << Line("randint", <<2, 1>>), Line("arange", <<10>>),
                  Line("linspace", <<8>>), Line("eye", <<2, 2>>),
                  Line("zeros", <<3, 3>>), Line("ones", <<1, 2>>),
                  Line("randn", <<3>>), Line("randperm", <<12>>) >>)
    /\ pc' = Following(pc)
    /\ UNCHANGED <<hw, cuda, device, heap, env, writes>>

\* print(torch.FloatTensor([[1, 0], [0, 1]])); print(torch.Tensor(2, 3)):
\* the second tensor is uninitialized and its values are not recorded.
Cell7 ==
    /\ At("c7")
    /\ Start(7)
    /\ Emit(7, <<Line("FloatTensor", <<2, 2>>), Line("Tensor", <<2, 3>>)>>)
    /\ pc' = Following(pc)
    /\ UNCHANGED <<hw, cuda, device, heap, env, writes>>

\* torch.empty(2, 3), torch.empty(3).cauchy_(), torch.empty(3).geometric_(0.7):
\* uninitialized or sampled values, not recorded.
Cell8 ==
    /\ At("c8")
    /\ Start(8)
    /\ Emit(8, << Line("empty", <<2, 3>>), Line("cauchy_", <<3>>),
                  Line("geometric_", <<3>>) >>)
    /\ pc' = Following(pc)
    /\ UNCHANGED <<hw, cuda, device, heap, env, writes>>

\* twotwo = 2 * torch.ones(2); print(twotwo)
Cell9_twotwo ==
    /\ At("c9_twotwo")
    /\ LET o == TorchOnes(heap, <<2>>, Scale, "float32", "cpu")
           r == MulScalar(o.heap, 2, o.ret)
       IN  /\ heap' = r.heap
           /\ env' = [env EXCEPT !.twotwo = r.ret]
           /\ Emit(9, <<Line("tensor", ReadAll(r.heap, r.ret))>>)
    /\ Start(9)
    /\ pc' = Following(pc)
    /\ UNCHANGED <<hw, cuda, device, writes>>

\* twotwo_sqrt = torch.sqrt(twotwo); print(twotwo_sqrt);
\* print(np.shares_memory(twotwo, twotwo_sqrt))
Cell9_sqrt ==
    /\ At("c9_sqrt")
    /\ LET r == TorchSqrt(heap, env.twotwo)
       IN  /\ heap' = r.heap
           /\ env' = [env EXCEPT !.twotwo_sqrt = r.ret]
           /\ Emit(9, << Line("tensor", ReadAll(r.heap, r.ret)),
                         Line(PyBool(SharesMemory(env.twotwo, r.ret)), <<>>) >>)
    /\ pc' = Following(pc)
    /\ UNCHANGED <<hw, cuda, device, execution_count, writes>>

\* twotwo.sqrt_(); print(twotwo)
Cell9_sqrt_ ==
    /\ At("c9_sqrt_")
    /\ LET r == Sqrt_(heap, env.twotwo)
       IN  /\ heap' = r.heap
           /\ Emit(9, <<Line("tensor", ReadAll(r.heap, env.twotwo))>>)
    /\ pc' = Following(pc)
    /\ UNCHANGED <<hw, cuda, device, env, execution_count, writes>>

\* The dtype of zeros(2), and tensors built or cast as short and double.
Cell10 ==
    /\ At("c10")
    /\ Start(10)
    /\ Emit(10, << Line(TypeName(Untracked(<<2>>, "float32")), <<>>),
                   Line("int16", <<0, 1, 2>>), Line("int16", <<0, 1, 2>>),
                   Line("float64", <<Scale, Scale, Scale>>),
                   Line("float64", <<Scale, Scale, Scale>>) >>)
    /\ pc' = Following(pc)
    /\ UNCHANGED <<hw, cuda, device, heap, env, writes>>

\* One print statement of cell 11, each placing ones(3) on 'cuda': when the
\* CUDA initialization raises, the cell ends with the error as its output
\* and the notebook goes on with the next cell.
Cell11Statement(l, text) ==
    /\ At(l)
    /\ IF CudaInit(cuda) = "ok"
       THEN /\ Emit(11, <<Line(text, <<Scale, Scale, Scale>>)>>)
            /\ pc' = Following(pc)
       ELSE /\ Emit(11, <<Line("AssertionError", <<>>)>>)
            /\ pc' = "c13"
    /\ UNCHANGED <<hw, cuda, device, heap, env, writes>>

\* print(torch.ones(3, device='cuda'))
Cell11_ones ==
    /\ Cell11Statement("c11_ones", "tensor cuda:0")
    /\ Start(11)

\* print(torch.ones(3).cuda())
Cell11_cuda ==
    /\ Cell11Statement("c11_cuda", "tensor cuda:0")
    /\ UNCHANGED execution_count

\* print(torch.ones(3).to('cuda'))
Cell11_to ==
    /\ Cell11Statement("c11_to", "tensor cuda:0")
    /\ UNCHANGED execution_count

\* print(torch.ones(3).to('cuda').type())
Cell11_type ==
    /\ Cell11Statement("c11_type", "torch.cuda.FloatTensor")
    /\ UNCHANGED execution_count

\* a = torch.randn(3, 1); b = torch.randn_like(a); print a, b, a + b
Cell13 ==
    /\ At("c13")
    /\ Start(12)
    /\ env' = [env EXCEPT !.a = Untracked(<<3, 1>>, "float32"),
                          !.b = Untracked(<<3, 1>>, "float32")]
    /\ Emit(12, <<Line("a", <<3, 1>>), Line("b", <<3, 1>>), Line("a + b", <<3, 1>>)>>)
    /\ pc' = Following(pc)
    /\ UNCHANGED <<hw, cuda, device, heap, writes>>

\* print(a @ b.T)
Cell14 ==
    /\ At("c14")
    /\ Start(13)
    /\ Emit(13, <<Line("a @ b.T", <<env.a.shape[1], T(env.b).shape[2]>>)>>)
    /\ pc' = Following(pc)
    /\ UNCHANGED <<hw, cuda, device, heap, env, writes>>

\* print(a.T)
Cell15 ==
    /\ At("c15")
    /\ Start(14)
    /\ Emit(14, <<Line("a.T", T(env.a).shape)>>)
    /\ pc' = Following(pc)
    /\ UNCHANGED <<hw, cuda, device, heap, env, writes>>

\* print(a.t())
Cell16 ==
    /\ At("c16")
    /\ Start(15)
    /\ Emit(15, <<Line("a.t()", Tt(env.a).shape)>>)
    /\ pc' = Following(pc)
    /\ UNCHANGED <<hw, cuda, device, heap, env, writes>>

\* c = torch.randint(0, 10, size=(2, 3, 4, 5, 6)); print the sizes of c,
\* c.T and c.transpose(0, 2)
Cell17 ==
    /\ At("c17")
    /\ Start(16)
    /\ LET c == Untracked(<<2, 3, 4, 5, 6>>, "int64")
       IN  /\ env' = [env EXCEPT !.c = c]
           /\ Emit(16, << Line("torch.Size", c.shape),
                          Line("torch.Size", T(c).shape),
                          Line("torch.Size", Transpose(c, 0, 2).shape) >>)
    /\ pc' = Following(pc)
    /\ UNCHANGED <<hw, cuda, device, heap, writes>>

\* print(c.dim()); print(c.numel()); print(torch.numel(c))
Cell18 ==
    /\ At("c18")
    /\ Start(17)
    /\ Emit(17, << Line("int", <<Dim(env.c)>>),
                   Line("int", <<Numel(env.c.shape)>>),
                   Line("int", <<Numel(env.c.shape)>>) >>)
    /\ pc' = Following(pc)
    /\ UNCHANGED <<hw, cuda, device, heap, env, writes>>

\* d = torch.tensor([[0, 1], [2, 467]]); print(d)
Cell19 ==
    /\ At("c19")
    /\ Start(18)
    /\ LET r == TorchTensor(heap, PyValue(<<2, 2>>, <<0, 1, 2, 467>>))
           d == [r.ret EXCEPT !.dtype = "int64"]
       IN  /\ heap' = r.heap
           /\ env' = [env EXCEPT !.d = d]
           /\ Emit(18, <<Line("tensor", ReadAll(r.heap, d))>>)
    /\ pc' = Following(pc)
    /\ UNCHANGED <<hw, cuda, device, writes>>

\* print(d.view(-1, 4))
Cell27 ==
    /\ At("c27")
    /\ Start(19)
    /\ LET r == ViewAs(heap, env.d, <<-1, 4>>)
       IN  Emit(19, <<Line("tensor", r.ret.shape \o ReadAll(r.heap, r.ret))>>)
    /\ pc' = Following(pc)
    /\ UNCHANGED <<hw, cuda, device, heap, env, writes>>

\* print(d.dim())
Cell28 ==
    /\ At("c28")
    /\ Start(20)
    /\ Emit(20, <<Line("int", <<Dim(env.d)>>)>>)
    /\ pc' = Following(pc)
    /\ UNCHANGED <<hw, cuda, device, heap, env, writes>>

\* print(d.unsqueeze(0).size())
Cell39 ==
    /\ At("c39")
    /\ Start(21)
    /\ Emit(21, <<Line("torch.Size", Unsqueeze(heap, env.d, 0).ret.shape)>>)
    /\ pc' = Following(pc)
    /\ UNCHANGED <<hw, cuda, device, heap, env, writes>>

\* print(d.squeeze(0))
Cell40_squeeze ==
    /\ At("c40_squeeze")
    /\ Start(22)
    /\ LET r == Squeeze(heap, env.d, 0)
       IN  Emit(22, <<Line("tensor", r.ret.shape \o ReadAll(r.heap, r.ret))>>)
    /\ pc' = Following(pc)
    /\ UNCHANGED <<hw, cuda, device, heap, env, writes>>

\* print(d.fill_(33))
Cell40_fill_ ==
    /\ At("c40_fill_")
    /\ LET r == Fill_(heap, env.d, 33)
       IN  /\ heap' = r.heap
           /\ Emit(22, <<Line("tensor", r.ret.shape \o ReadAll(r.heap, r.ret))>>)
    /\ pc' = Following(pc)
    /\ UNCHANGED <<hw, cuda, device, env, execution_count, writes>>

\* d
Cell41 ==
    /\ At("c41")
    /\ Start(23)
    /\ Emit(23, <<Line("tensor", env.d.shape \o ReadAll(heap, env.d))>>)
    /\ pc' = Following(pc)
    /\ UNCHANGED <<hw, cuda, device, heap, env, writes>>

\* d.resize_(4)
Cell45 ==
    /\ At("c45")
    /\ Start(24)
    /\ LET r == Resize_(heap, env.d, <<4>>)
       IN  /\ heap' = r.heap
           /\ env' = [env EXCEPT !.d = r.ret]
           /\ Emit(24, <<Line("tensor", r.ret.shape \o ReadAll(r.heap, r.ret))>>)
    /\ pc' = Following(pc)
    /\ UNCHANGED <<hw, cuda, device, writes>>

\* e = torch.ones_like(d)
Cell46_ones_like ==
    /\ At("c46_ones_like")
    /\ Start(25)
    /\ LET r == TorchOnes(heap, env.d.shape, 1, env.d.dtype, env.d.device)
       IN  /\ heap' = r.heap
           /\ env' = [env EXCEPT !.e = r.ret]
    /\ pc' = Following(pc)
    /\ UNCHANGED <<hw, cuda, device, out, writes>>

\* print(torch.cat([d, e], dim=0)): the result is printed and dropped.
Cell46_cat ==
    /\ At("c46_cat")
    /\ LET r == Cat(heap, env.d, env.e)
       IN  Emit(25, <<Line("tensor", r.ret.shape \o ReadAll(r.heap, r.ret))>>)
    /\ pc' = Following(pc)
    /\ UNCHANGED <<hw, cuda, device, heap, env, execution_count, writes>>

\* Variant: the device is chosen without looking at the machine.
DeviceChoice_unconditional(available) == "cuda:0"

\* "cuda:0" if torch.cuda.is_available() else "cpu"
DeviceChoice(available) == IF available THEN "cuda:0" ELSE "cpu"

\* device = torch.device("cuda:0" if torch.cuda.is_available() else "cpu");
\* print('Device: {}'.format(device))
Cell47 ==
    /\ At("c47")
    /\ Start(26)
    /\ device' = DeviceChoice(cuda)
    /\ Emit(26, <<Line("Device: " \o device', <<>>)>>)
    /\ pc' = Following(pc)
    /\ UNCHANGED <<hw, cuda, heap, env, writes>>

\* e = e.to(device)
Cell48 ==
    /\ At("c48")
    /\ Start(27)
    /\ LET r == To(heap, env.e, device)
       IN  /\ heap' = r.heap
           /\ env' = [env EXCEPT !.e = r.ret]
    /\ pc' = Following(pc)
    /\ UNCHANGED <<hw, cuda, device, out, writes>>

Cells5to48 ==
    \/ Cell5 \/ Cell6 \/ Cell7 \/ Cell8
    \/ Cell9_twotwo \/ Cell9_sqrt \/ Cell9_sqrt_
    \/ Cell10
    \/ Cell11_ones \/ Cell11_cuda \/ Cell11_to \/ Cell11_type
    \/ Cell13 \/ Cell14 \/ Cell15 \/ Cell16 \/ Cell17 \/ Cell18
    \/ Cell19 \/ Cell27 \/ Cell28 \/ Cell39
    \/ Cell40_squeeze \/ Cell40_fill_
    \/ Cell41 \/ Cell45
    \/ Cell46_ones_like \/ Cell46_cat
    \/ Cell47 \/ Cell48

Next == Cells1to4 \/ Cells5to48

Spec == Init /\ [][Next]_vars

NextW == Cells1to4 \/ ElementWrite

\* Cells 1 to 4 followed by any MaxWrites element writes through the views.
SpecW == Init /\ [][NextW]_vars

-----------------------------------------------------------------------------
\* Homework 01, exercise 3: p(x, y) = (x + y)/30 for x = 0, 1, 2 and
\* y = 0, 1, 2, 3, and 0 otherwise.  Probabilities are kept as their
\* numerators over 30.

\* The arguments x and y are taken from 0..MaxArg.
MaxArg == 3

\* The largest extent of a dimension of the 2-dimensional tensors on which
\* .T and .t() are compared.
MaxExtent == 3

\* The denominator of the joint distribution.
Denominator == 30

XMax == 2

YMax == 3

\* Variant: the joint distribution is proportional to x y.
Joint_product(x, y) == IF x \in 0..XMax /\ y \in 0..YMax THEN x * y ELSE 0

\* 30 p(x, y)
Joint(x, y) == IF x \in 0..XMax /\ y \in 0..YMax THEN x + y ELSE 0

\* Variant: the sum over x stops one term early.
LastX_offByOne == XMax - 1

\* The last index of the sum over x that gives the marginal of Y.
LastX == XMax

\* The last index of the sum over y that gives the marginal of X.
LastY == YMax

InitHW ==
    /\ InitNotebook
    /\ \E x \in 0..MaxArg, y \in 0..MaxArg :
          hw = [HwIdle EXCEPT !.phase = "sum_y", !.x = x, !.y = y]

\* p(x) = sum over j = 0..3 of p(x, j): one term of the sum.
SumOverY ==
    /\ hw.phase = "sum_y"
    /\ hw' = IF hw.j <= LastY
             THEN [hw EXCEPT !.px = @ + Joint(hw.x, hw.j), !.j = @ + 1]
             ELSE [hw EXCEPT !.phase = "sum_x"]
    /\ UNCHANGED <<pc, cuda, heap, env, device, out, execution_count, writes>>

\* p(y) = sum over i = 0..2 of p(i, y): one term of the sum.
SumOverX ==
    /\ hw.phase = "sum_x"
    /\ hw' = IF hw.i <= LastX
             THEN [hw EXCEPT !.py = @ + Joint(hw.i, hw.y), !.i = @ + 1]
             ELSE [hw EXCEPT !.phase = "done"]
    /\ UNCHANGED <<pc, cuda, heap, env, device, out, execution_count, writes>>

\* p(x) p(y) against p(x, y), both as numerators over 30 * 30.
Compare ==
    /\ hw.phase = "done"
    /\ hw' = [hw EXCEPT !.prod = hw.px * hw.py,
                        !.joint = Denominator * Joint(hw.x, hw.y),
                        !.phase = "total"]
    /\ UNCHANGED <<pc, cuda, heap, env, device, out, execution_count, writes>>

\* The sum of p(x, y) over x = 0, 1, 2 and y = 0, 1, 2, 3: one term.
SumJoint ==
    /\ hw.phase = "total"
    /\ hw' = IF hw.tx > LastX THEN [hw EXCEPT !.phase = "end"]
             ELSE IF hw.ty > LastY THEN [hw EXCEPT !.tx = @ + 1, !.ty = 0]
             ELSE [hw EXCEPT !.total = @ + Joint(hw.tx, hw.ty), !.ty = @ + 1]
    /\ UNCHANGED <<pc, cuda, heap, env, device, out, execution_count, writes>>

NextHW == SumOverY \/ SumOverX \/ Compare \/ SumJoint

\* The marginals of exercise 3, their product against the joint
\* distribution and the sum of the joint distribution, for every pair of
\* arguments.
SpecHW == InitHW /\ [][NextHW]_vars

-----------------------------------------------------------------------------
\* Properties.

Bound(n) == env[n].kind # "unbound"

RowsOfTens == 0..(env.tens.shape[1] - 1)

ColsOfTens == 0..(env.tens.shape[2] - 1)

\* C1: the views tens, arr_from_tens and tens_first_row alias one buffer
\* region, so after any sequence of element writes through any of them each
\* reads the values the others read; arr_np, of which tens was made as a
\* copy, is the only one that shares memory with none of them.
AliasingInvariant ==
    /\ Bound("arr_from_tens") =>
          /\ SharesMemory(env.tens, env.arr_from_tens)
          /\ ~SharesMemory(env.arr_np, env.arr_from_tens)
          /\ \A i \in RowsOfTens, j \in ColsOfTens :
                Get(heap, env.arr_from_tens, <<i, j>>) = Get(heap, env.tens, <<i, j>>)
    /\ Bound("tens_first_row") =>
          /\ SharesMemory(env.tens, env.tens_first_row)
          /\ SharesMemory(env.arr_from_tens, env.tens_first_row)
          /\ ~SharesMemory(env.arr_np, env.tens_first_row)
          /\ \A j \in ColsOfTens :
                /\ Get(heap, env.tens_first_row, <<j>>) = Get(heap, env.tens, <<0, j>>)
                /\ Get(heap, env.tens_first_row, <<j>>)
                      = Get(heap, env.arr_from_tens, <<0, j>>)

\* Two element writes after cell 4 have reached places cells 2 and 3 never
\* wrote, and are read through the other views.
AliasingWitness ==
    /\ writes = 2
    /\ Get(heap, env.tens_first_row, <<2>>) = Twenty
    /\ Get(heap, env.arr_from_tens, <<1, 0>>) = Twenty
    /\ Get(heap, env.tens, <<0, 2>>) = Twenty
    /\ Get(heap, env.tens, <<1, 0>>) = Twenty

\* C2: torch.tensor(arr_np) is a copy: tens and arr_np never share memory,
\* and whatever is written to the elements of tens, arr_np keeps the values
\* it was printed with when it was created.
TensorIsCopy ==
    Bound("tens") =>
       /\ ~SharesMemory(env.arr_np, env.tens)
       /\ env.arr_np.buf # env.tens.buf
       /\ ReadAll(heap, env.arr_np) = out[2][1].data
       /\ After("c2_setitem") => out[2][5].data = out[2][1].data

\* tens[0, 0] = 10 has run and a later write has changed another element
\* of tens, which arr_np does not show.
TensorIsCopyWitness ==
    /\ writes > 0
    /\ Get(heap, env.tens, <<0, 0>>) = Ten
    /\ Get(heap, env.tens, <<1, 1>>) = Twenty
    /\ Get(heap, env.arr_np, <<1, 1>>) # Twenty

\* C3: tens.numpy() is a view: once created, arr_from_tens reads the
\* tensor's current values, the earlier tens[0, 0] = 10 included, and after
\* arr_from_tens[0, 1] = 20 element (0, 1) of tens is 20.
NumpyIsView ==
    /\ After("c3_numpy") =>
          /\ SharesMemory(env.tens, env.arr_from_tens)
          /\ ReadAll(heap, env.arr_from_tens) = ReadAll(heap, env.tens)
          /\ Get(heap, env.arr_from_tens, <<0, 0>>) = Ten
          /\ out[3][1].data[1] = Ten
    /\ After("c3_setitem") =>
          /\ Get(heap, env.tens, <<0, 1>>) = Twenty
          /\ out[3][2].data[2] = Twenty

NumpyIsViewWitness ==
    /\ At("c4_slice")
    /\ Get(heap, env.arr_from_tens, <<0, 1>>) = Twenty

\* C4: tens[0] shares memory with tens; tens[0, 0].item() and tens.tolist()
\* do not, and keep the values tens had when they were called (those
\* printed at the end of cell 3) whatever is written to tens afterwards.
SliceIsViewItemAndListAreCopies ==
    /\ Bound("tens_first_row") => SharesMemory(env.tens, env.tens_first_row)
    /\ Bound("tens_element_as_py_obj") =>
          /\ ~SharesMemory(env.tens, env.tens_element_as_py_obj)
          /\ ReadAll(heap, env.tens_element_as_py_obj) = <<out[3][2].data[1]>>
    /\ Bound("tens_as_list") =>
          /\ ~SharesMemory(env.tens, env.tens_as_list)
          /\ ReadAll(heap, env.tens_as_list) = out[3][2].data
    /\ After("c4_print") =>
          <<out[4][1].text, out[4][2].text, out[4][3].text>>
             = <<"True", "False", "False">>

\* Later writes have changed element (0, 0) and another element of tens,
\* and the number and the list still hold the old values.
CopiesWitness ==
    /\ writes > 0
    /\ Get(heap, env.tens, <<0, 0>>) = Twenty
    /\ Get(heap, env.tens, <<1, 2>>) = Twenty
    /\ Get(heap, env.tens_element_as_py_obj, <<>>) = Ten
    /\ Get(heap, env.tens_as_list, <<1, 2>>) # Twenty

\* r is the square root of v rounded down to 1/Scale.
IsFixSqrt(r, v) == r >= 0 /\ r * r <= v * Scale /\ v * Scale < (r + 1) * (r + 1)

\* C5: twotwo.sqrt_() works in place: twotwo refers to the same buffer
\* after it, no buffer is allocated, every element holds the square root of
\* the value it held before, and the values are those of twotwo_sqrt.
SqrtInPlace ==
    [][At("c9_sqrt_") =>
          /\ env'.twotwo = env.twotwo
          /\ Len(heap') = Len(heap)
          /\ \A k \in 1..Numel(env.twotwo.shape) :
                IsFixSqrt(ReadAll(heap', env'.twotwo)[k], ReadAll(heap, env.twotwo)[k])
          /\ ReadAll(heap', env'.twotwo) = ReadAll(heap', env'.twotwo_sqrt)
          /\ ReadAll(heap', env'.twotwo) # ReadAll(heap, env.twotwo)]_vars

SqrtInPlaceWitness ==
    /\ After("c9_sqrt_")
    /\ ReadAll(heap, env.twotwo) = <<14142, 14142>>

\* C6: torch.sqrt(twotwo) is out of place: its result is in the newest
\* buffer, which shares no memory with twotwo, and until twotwo.sqrt_() is
\* called twotwo keeps the values it was printed with.
SqrtOutOfPlace ==
    /\ At("c9_sqrt_") =>
          /\ env.twotwo_sqrt.buf = Len(heap)
          /\ ReadAll(heap, env.twotwo) = out[9][1].data
          /\ ReadAll(heap, env.twotwo) = <<2 * Scale, 2 * Scale>>
          /\ out[9][3].text = "False"
    /\ Bound("twotwo_sqrt") =>
          /\ ~SharesMemory(env.twotwo, env.twotwo_sqrt)
          /\ env.twotwo_sqrt.buf # env.twotwo.buf

SqrtOutOfPlaceWitness ==
    /\ At("c9_sqrt_")
    /\ ReadAll(heap, env.twotwo_sqrt) = <<14142, 14142>>
    /\ ReadAll(heap, env.twotwo) # ReadAll(heap, env.twotwo_sqrt)

\* C7: without a GPU the first statement of cell 11 raises: the cell's only
\* output is the error, none of its other statements is ever reached, the
\* cell is run once and the notebook goes on with the next cell.
CudaFaultEndsCell ==
    ~cuda =>
       /\ pc \notin {"c11_cuda", "c11_to", "c11_type"}
       /\ After("c11_ones") =>
             /\ out[11] = <<Line("AssertionError", <<>>)>>
             /\ execution_count[11] = 11
             /\ After("c11_type")

CudaFaultWitness ==
    /\ ~cuda
    /\ At("c13")
    /\ Len(out[11]) = 1

InSupport == hw.x \in 0..XMax /\ hw.y \in 0..YMax

Compared == hw.phase \in {"total", "end"}

\* C11: X and Y are not independent: with the marginals obtained by
\* summation, p(x) p(y) differs from p(x, y) at every pair of the support
\* with x = 0 or x = 2 (so at at least one pair; at x = 1 the two agree),
\* and p(x, y) sums to 1 over the support.
NotIndependent ==
    /\ (Compared /\ InSupport) =>
          /\ hw.prod = hw.px * hw.py
          /\ hw.joint = Denominator * (hw.x + hw.y)
          /\ (hw.prod # hw.joint) <=> (hw.x # 1)
    /\ hw.phase = "end" => hw.total = Denominator

\* The pair (0, 0): p(0) p(0) = 18/900 and p(0, 0) = 0; the joint
\* distribution has been summed.
NotIndependentWitness ==
    /\ hw.phase = "end"
    /\ hw.x = 0 /\ hw.y = 0
    /\ hw.prod = 18 /\ hw.joint = 0
    /\ hw.total = 30

\* What holds of d and e from the statement that establishes it onwards.
DAndELater ==
    /\ (After("c19") /\ ~After("c45")) => env.d.shape = <<2, 2>>
    /\ After("c40_fill_") => ReadAll(heap, env.d) = <<33, 33, 33, 33>>
    /\ After("c45") => env.d.shape = <<4>>
    /\ After("c46_ones_like") =>
          /\ env.e.shape = <<4>>
          /\ ReadAll(heap, env.e) = <<1, 1, 1, 1>>
          /\ ~SharesMemory(env.d, env.e)
    /\ After("c46_cat") =>
          out[25] = << Line("tensor",
                            <<8>> \o ReadAll(heap, env.d) \o ReadAll(heap, env.e)) >>

\* C12: the in-place calls on d persist and the out-of-place ones leave d
\* alone: view, unsqueeze and squeeze leave d of shape (2, 2); from fill_(33)
\* on every element of d reads 33; resize_(4) gives d itself (same buffer,
\* same stored values) the shape (4); ones_like(d) is four ones of shape (4);
\* cat prints the 8 values of d then e and changes neither.
InPlaceMutationsPersist ==
    [][ /\ DAndELater'
        /\ pc \in {"c27", "c39", "c40_squeeze"} =>
              /\ env'.d = env.d
              /\ ReadAll(heap', env'.d) = ReadAll(heap, env.d)
        /\ At("c40_fill_") => env'.d = env.d
        /\ At("c45") =>
              /\ env'.d.buf = env.d.buf /\ env'.d.off = env.d.off
              /\ ReadAll(heap', env'.d) = ReadAll(heap, env.d)
        /\ At("c46_cat") =>
              /\ env'.d = env.d /\ env'.e = env.e
              /\ ReadAll(heap', env'.d) = ReadAll(heap, env.d)
              /\ ReadAll(heap', env'.e) = ReadAll(heap, env.e) ]_vars

\* The notebook has run to its end: the view, the unsqueezed size and the
\* squeezed d were printed from the first values of d, the rest from 33s.
InPlaceMutationsWitness ==
    /\ At("done")
    /\ out[19] = <<Line("tensor", <<1, 4, 0, 1, 2, 467>>)>>
    /\ out[21] = <<Line("torch.Size", <<1, 2, 2>>)>>
    /\ out[22] = << Line("tensor", <<2, 2, 0, 1, 2, 467>>),
                    Line("tensor", <<2, 2, 33, 33, 33, 33>>) >>
    /\ out[24] = <<Line("tensor", <<4, 33, 33, 33, 33>>)>>
    /\ out[25] = <<Line("tensor", <<8, 33, 33, 33, 33, 1, 1, 1, 1>>)>>
    /\ env.d.shape = <<4>> /\ ReadAll(heap, env.d) = <<33, 33, 33, 33>>
    /\ env.e.shape = <<4>> /\ ReadAll(heap, env.e) = <<1, 1, 1, 1>>

\* C13: for c of shape (2, 3, 4, 5, 6), c.T has the shape reversed,
\* c.transpose(0, 2) has dimensions 0 and 2 swapped and the others in place,
\* c.dim() is the length of the shape, c.numel() and torch.numel(c) are the
\* product of its entries, and c keeps its shape to the end of the notebook;
\* for a, and for every 2-dimensional tensor, .T and .t() are the same view.
TransposeShapes ==
    /\ After("c13") =>
          /\ Dim(env.a) = 2
          /\ T(env.a) = Tt(env.a)
    /\ After("c16") => out[14][1].data = out[15][1].data
    /\ After("c17") =>
          /\ env.c.shape = <<2, 3, 4, 5, 6>>
          /\ T(env.c).shape = <<6, 5, 4, 3, 2>>
          /\ Transpose(env.c, 0, 2).shape = <<4, 3, 2, 5, 6>>
          /\ Dim(env.c) = Len(env.c.shape) /\ Dim(env.c) = 5
          /\ Numel(env.c.shape) = 2 * 3 * 4 * 5 * 6
          /\ out[16] = << Line("torch.Size", <<2, 3, 4, 5, 6>>),
                          Line("torch.Size", <<6, 5, 4, 3, 2>>),
                          Line("torch.Size", <<4, 3, 2, 5, 6>>) >>
    /\ After("c18") =>
          out[17] = << Line("int", <<5>>), Line("int", <<720>>),
                       Line("int", <<720>>) >>
    /\ \A rows \in 1..MaxExtent, cols \in 1..MaxExtent :
          LET t == Untracked(<<rows, cols>>, "float32")
          IN  /\ T(t) = Tt(t)
              /\ T(t).shape = <<cols, rows>>

\* Cells 15 to 18 have printed the transposes of a and the sizes of c.
TransposeShapesWitness ==
    /\ After("c18")
    /\ out[14] = <<Line("a.T", <<1, 3>>)>>
    /\ out[15] = <<Line("a.t()", <<1, 3>>)>>
    /\ Len(out[16]) = 3 /\ out[16][2].data = <<6, 5, 4, 3, 2>>
    /\ out[17][2].data = <<720>>
    /\ env.c.shape = <<2, 3, 4, 5, 6>>

====
